---------------------------- MODULE Spec2Model ----------------------------
(***************************************************************************)
(* A model of process.py: the per-language line normalisation pipeline,    *)
(* process_file and the process_folder command.                            *)
(*                                                                         *)
(* A character is a string: an ASCII character is itself, any other        *)
(* character is written as its code point ("U+00AD").  A line, and the     *)
(* decoded content of a text file, is a sequence of characters.            *)
(* Regular expressions follow Python 3 semantics for str patterns:         *)
(* re.sub replaces the leftmost non-overlapping matches, scanning from     *)
(* left to right and resuming right after each match.  The one place where *)
(* Python 3 versions differ, the template of line 30, is the variable py37.*)
(*                                                                         *)
(* A run is either the process_folder command on a folder of up to         *)
(* MaxFiles text files, or a direct call of process_file on one text of up *)
(* to MaxLen characters.                                                   *)
(***************************************************************************)
EXTENDS Integers, Sequences, FiniteSets, TLC

\* ------------------------------------------------------------------------
\* Languages (process.py lines 13-22)
\* ------------------------------------------------------------------------
GERMAN == "de"
ENGLISH == "en"
SPANISH == "es"
FRENCH == "fr"
ITALIAN == "it"
DUTCH == "nl"
RUSSIAN == "ru"
CATALAN == "ca"
SWEDISH == "sv"
LANGUAGES == {GERMAN, ENGLISH, SPANISH, FRENCH, ITALIAN, DUTCH, RUSSIAN, CATALAN, SWEDISH}

\* ------------------------------------------------------------------------
\* Characters and character classes
\* ------------------------------------------------------------------------
SP == " "
NL == "\n"
SOFT_HYPHEN == "U+00AD"
MIDDLE_DOT == "U+00B7"
FIGURE_DASH == "U+2012"
EN_DASH == "U+2013"
EM_DASH == "U+2014"
ELLIPSIS == "U+2026"
E_GRAVE == "U+00C8"
LEFT_GUILLEMET == "U+00AB"
RIGHT_GUILLEMET == "U+00BB"
LEFT_SINGLE_GUILLEMET == "U+2039"
RIGHT_SINGLE_GUILLEMET == "U+203A"
LEFT_DOUBLE_QUOTE == "U+201C"
RIGHT_DOUBLE_QUOTE == "U+201D"
LEFT_SINGLE_QUOTE == "U+2018"
RIGHT_SINGLE_QUOTE == "U+2019"
APOSTROPHE == "'"
QUOTATION_MARK == "\""

\* \s of the re module and the characters str.strip() removes: the
\* whitespace characters among the characters of the model.
WhiteSpace == {SP, NL, "\t", "\r", "\f"}

\* [A-Z]
UpperAZ ==
    {"A", "B", "C", "D", "E", "F", "G", "H", "I", "J", "K", "L", "M",
     "N", "O", "P", "Q", "R", "S", "T", "U", "V", "W", "X", "Y", "Z"}

LowerAZ ==
    {"a", "b", "c", "d", "e", "f", "g", "h", "i", "j", "k", "l", "m",
     "n", "o", "p", "q", "r", "s", "t", "u", "v", "w", "x", "y", "z"}

Digits == {"0", "1", "2", "3", "4", "5", "6", "7", "8", "9"}

\* \w of the re module: letters, digits and the underscore.
WordChars == UpperAZ \cup LowerAZ \cup Digits \cup {"_", E_GRAVE}

IsSpace(c) == c \in WhiteSpace

IsWord(c) == c \in WordChars

\* The character of s at position i, or the empty string past either end
\* (no character is the empty string, so every class test fails there).
At(s, i) == IF i >= 1 /\ i <= Len(s) THEN s[i] ELSE ""

\* $ of the re module without MULTILINE: the end of the string, or the
\* position right before a newline that ends the string.
AtEnd(s, i) == i = Len(s) + 1 \/ (i = Len(s) /\ s[i] = NL)

\* str.strip()
RECURSIVE LStrip(_)
LStrip(s) == IF s # <<>> /\ IsSpace(Head(s)) THEN LStrip(Tail(s)) ELSE s

RECURSIVE RStrip(_)
RStrip(s) ==
    IF s # <<>> /\ IsSpace(s[Len(s)]) THEN RStrip(SubSeq(s, 1, Len(s) - 1)) ELSE s

Strip(s) == RStrip(LStrip(s))

\* s.startswith(old) at position i
MatchesAt(s, i, old) ==
    /\ i + Len(old) - 1 <= Len(s)
    /\ \A k \in 1..Len(old) : s[i + k - 1] = old[k]

\* str.replace(old, new), old non-empty: leftmost non-overlapping occurrences
RECURSIVE ReplaceFrom(_, _, _, _)
ReplaceFrom(s, i, old, new) ==
    IF i > Len(s) THEN <<>>
    ELSE IF MatchesAt(s, i, old) THEN new \o ReplaceFrom(s, i + Len(old), old, new)
    ELSE <<s[i]>> \o ReplaceFrom(s, i + 1, old, new)

Replace(s, old, new) == ReplaceFrom(s, 1, old, new)

\* 1 when the character at i is whitespace (an optional \s? taken greedily)
OptSpace(s, i) == IF IsSpace(At(s, i)) THEN 1 ELSE 0

\* ------------------------------------------------------------------------
\* Regular expressions.  MatchLen(p, s, i) is the length of the match of
\* pattern p that starts at position i of s, 0 when there is none (no
\* pattern of the program matches the empty string); Repl(p, s, i, n) is
\* what re.sub puts in place of the n characters matched at i.
\* ------------------------------------------------------------------------
Punctuation == {".", ",", "?", "!"}

Dashes == {FIGURE_DASH, EN_DASH, EM_DASH}

RECURSIVE SpaceRun(_, _)
SpaceRun(s, i) == IF IsSpace(At(s, i)) THEN 1 + SpaceRun(s, i + 1) ELSE 0

MatchLen(p, s, i) ==
    CASE p = "spaces" ->          \* \s+
            SpaceRun(s, i)
      [] p \in Dashes ->           \* \s?<dash>\s?
            IF IsSpace(At(s, i)) /\ At(s, i + 1) = p THEN 2 + OptSpace(s, i + 2)
            ELSE IF At(s, i) = p THEN 1 + OptSpace(s, i + 1)
            ELSE 0
      [] p = "period" ->           \* (\w)\s?\.(\w)
            IF ~IsWord(At(s, i)) THEN 0
            ELSE IF IsSpace(At(s, i + 1)) /\ At(s, i + 2) = "." /\ IsWord(At(s, i + 3))
                 THEN 4
            ELSE IF At(s, i + 1) = "." /\ IsWord(At(s, i + 2)) THEN 3
            ELSE 0
      [] p = "hyphen" ->           \* (\w)-\s(\w)
            IF /\ IsWord(At(s, i)) /\ At(s, i + 1) = "-"
               /\ IsSpace(At(s, i + 2)) /\ IsWord(At(s, i + 3))
            THEN 4 ELSE 0
      [] p = "apostrophe" ->       \* ’(\w)
            IF At(s, i) = RIGHT_SINGLE_QUOTE /\ IsWord(At(s, i + 1)) THEN 2 ELSE 0
      [] p = "fr_space" ->         \* \s\'
            IF IsSpace(At(s, i)) /\ At(s, i + 1) = APOSTROPHE THEN 2 ELSE 0
      [] p = "nl_quote" ->         \* \'([A-Z]|\.|\s|$)
            IF At(s, i) # APOSTROPHE THEN 0
            ELSE IF At(s, i + 1) \in UpperAZ \cup {"."} \cup WhiteSpace THEN 2
            ELSE IF AtEnd(s, i + 1) THEN 1
            ELSE 0
      [] p = "nl_comma" ->         \* (,\s)\'
            IF At(s, i) = "," /\ IsSpace(At(s, i + 1)) /\ At(s, i + 2) = APOSTROPHE
            THEN 3 ELSE 0
      [] p = "ru_hyphen" ->        \* (^|\.\s?)-\s?
            IF i = 1 /\ At(s, 1) = "-" THEN 1 + OptSpace(s, 2)
            ELSE IF At(s, i) # "." THEN 0
            ELSE IF IsSpace(At(s, i + 1)) /\ At(s, i + 2) = "-" THEN 3 + OptSpace(s, i + 3)
            ELSE IF At(s, i + 1) = "-" THEN 2 + OptSpace(s, i + 2)
            ELSE 0
      [] p = "ru_punct_quote" ->   \* ([.,?!])\s(\"(?:\s|$))
            IF ~(/\ At(s, i) \in Punctuation /\ IsSpace(At(s, i + 1))
                 /\ At(s, i + 2) = QUOTATION_MARK)
            THEN 0
            ELSE IF IsSpace(At(s, i + 3)) THEN 4
            ELSE IF AtEnd(s, i + 3) THEN 3
            ELSE 0
      [] p = "ru_quote_hyphen" ->  \* ([.,?!])\s?(\")-
            IF At(s, i) \notin Punctuation THEN 0
            ELSE IF /\ IsSpace(At(s, i + 1)) /\ At(s, i + 2) = QUOTATION_MARK
                    /\ At(s, i + 3) = "-"
                 THEN 4
            ELSE IF At(s, i + 1) = QUOTATION_MARK /\ At(s, i + 2) = "-" THEN 3
            ELSE 0
      [] p = "ru_start_quote" ->   \* (^\")\s
            IF i = 1 /\ At(s, 1) = QUOTATION_MARK /\ IsSpace(At(s, 2)) THEN 2 ELSE 0
      [] p = "ca_quote_dot" ->     \* "\.
            IF At(s, i) = QUOTATION_MARK /\ At(s, i + 1) = "." THEN 2 ELSE 0

Repl(p, s, i, n) ==
    CASE p = "spaces" -> <<SP>>
      [] p \in Dashes -> <<SP, "-", SP>>
      [] p = "period" -> <<s[i], ".", SP, s[i + n - 1]>>
      [] p = "hyphen" -> <<s[i], "-", s[i + 3]>>
      [] p = "apostrophe" ->      \* the template \u0027\1, whose \u is no escape of
                                   \* a template and stays as written
            <<"\\", "u", "0", "0", "2", "7", s[i + 1]>>
      [] p = "fr_space" -> <<APOSTROPHE>>
      [] p = "nl_quote" -> <<QUOTATION_MARK>> \o SubSeq(s, i + 1, i + n - 1)
      [] p = "nl_comma" -> <<s[i], s[i + 1], QUOTATION_MARK>>
      [] p = "ru_hyphen" ->
            IF s[i] = "-" THEN <<>>
            ELSE IF IsSpace(s[i + 1]) THEN <<s[i], s[i + 1]>>
            ELSE <<s[i]>>
      [] p = "ru_punct_quote" -> <<s[i]>> \o SubSeq(s, i + 2, i + n - 1)
      [] p = "ru_quote_hyphen" -> <<s[i], QUOTATION_MARK, SP, "-">>
      [] p = "ru_start_quote" -> <<QUOTATION_MARK>>
      [] p = "ca_quote_dot" -> <<".", QUOTATION_MARK>>

\* re.sub(p, repl, s)
RECURSIVE ReSubFrom(_, _, _)
ReSubFrom(p, s, i) ==
    IF i > Len(s) + 1 THEN <<>>
    ELSE LET n == MatchLen(p, s, i) IN
         IF n > 0 THEN Repl(p, s, i, n) \o ReSubFrom(p, s, i + n)
         ELSE IF i > Len(s) THEN <<>>
         ELSE <<s[i]>> \o ReSubFrom(p, s, i + 1)

ReSub(p, s) == ReSubFrom(p, s, 1)

\* ------------------------------------------------------------------------
\* The rule functions (process.py lines 28-105)
\* ------------------------------------------------------------------------
normalize_apostrophes(line) == ReSub("apostrophe", line)

remove_soft_hyphens(line) ==
    Replace(Replace(line, <<SOFT_HYPHEN>>, <<>>), <<MIDDLE_DOT>>, <<>>)

remove_double_spaces(line) == Strip(ReSub("spaces", line))

\* fix_period_spacing without its .strip()
fix_period_spacing_unstripped(line) == ReSub("period", line)

fix_period_spacing(line) == Strip(ReSub("period", line))

fix_hyphenization(language, line) ==
    LET l1 == ReSub("hyphen", line)
        l2 == IF language = DUTCH
              THEN Replace(Replace(l1, <<"-", "e", "n", SP>>, <<"-", SP, "e", "n", SP>>),
                           <<"-", "o", "f", SP>>, <<"-", SP, "o", "f", SP>>)
              ELSE l1
        l3 == IF language = GERMAN
              THEN Replace(Replace(l2, <<"-", "u", "n", "d", SP>>,
                                       <<"-", SP, "u", "n", "d", SP>>),
                           <<"-", "o", "d", "e", "r", SP>>,
                           <<"-", SP, "o", "d", "e", "r", SP>>)
              ELSE l2
    IN l3

replace_quotes(language, line) ==
    LET l1 == IF language \in {GERMAN, CATALAN}
              THEN Replace(Replace(Replace(Replace(Replace(Replace(line,
                       <<LEFT_GUILLEMET>>, <<QUOTATION_MARK>>),
                       <<RIGHT_GUILLEMET>>, <<QUOTATION_MARK>>),
                       <<LEFT_SINGLE_GUILLEMET>>, <<APOSTROPHE>>),
                       <<RIGHT_SINGLE_GUILLEMET>>, <<APOSTROPHE>>),
                       <<"<">>, <<APOSTROPHE>>),
                       <<">">>, <<APOSTROPHE>>)
              ELSE line
        l2 == IF language \in {DUTCH, FRENCH, CATALAN, SWEDISH}
              THEN Replace(Replace(Replace(Replace(l1,
                       <<LEFT_DOUBLE_QUOTE>>, <<QUOTATION_MARK>>),
                       <<RIGHT_DOUBLE_QUOTE>>, <<QUOTATION_MARK>>),
                       <<LEFT_SINGLE_QUOTE>>, <<APOSTROPHE>>),
                       <<RIGHT_SINGLE_QUOTE>>, <<APOSTROPHE>>)
              ELSE l1
        l3 == IF language = FRENCH THEN ReSub("fr_space", l2) ELSE l2
        l4 == IF language = DUTCH
              THEN Replace(
                       ReSub("nl_comma",
                           ReSub("nl_quote",
                               Replace(l3, <<APOSTROPHE, APOSTROPHE>>, <<APOSTROPHE>>))),
                       <<QUOTATION_MARK, "t", SP>>, <<APOSTROPHE, "t", SP>>)
              ELSE l3
        l5 == IF language = RUSSIAN
              THEN ReSub("ru_start_quote",
                       ReSub("ru_quote_hyphen",
                           ReSub("ru_punct_quote",
                               ReSub("ru_hyphen",
                                   Replace(l4, <<QUOTATION_MARK, QUOTATION_MARK>>,
                                               <<QUOTATION_MARK>>)))))
              ELSE l4
        l6 == IF language = CATALAN THEN ReSub("ca_quote_dot", l5) ELSE l5
    IN l6

replace_common_errors(language, line) ==
    LET l1 == ReSub(EM_DASH, ReSub(EN_DASH, ReSub(FIGURE_DASH, line)))
        l2 == Replace(l1, <<ELLIPSIS>>, <<".", ".", ".">>)
    IN IF language = ITALIAN THEN Replace(l2, <<"E", APOSTROPHE>>, <<E_GRAVE>>) ELSE l2

\* line 119 with GERMAN left out of the list
UsesApostrophes_WithoutGerman(language) == language \in {ENGLISH, DUTCH}

\* line 119: the languages whose lines get normalize_apostrophes
UsesApostrophes(language) == language \in {ENGLISH, DUTCH, GERMAN}

\* lines 113-120: what the loop body makes of one retained line
PipelineResult(language, line) ==
    LET l6 == replace_quotes(language,
                  fix_hyphenization(language,
                      fix_period_spacing(
                          replace_common_errors(language,
                              remove_soft_hyphens(
                                  remove_double_spaces(line))))))
    IN IF UsesApostrophes(language) THEN normalize_apostrophes(l6) ELSE l6

\* ------------------------------------------------------------------------
\* Files.  A path is <<folder, base name, extension>>; the content of a path
\* is absent, bytes that are not UTF-8, or decoded text.
\* ------------------------------------------------------------------------
MaxFiles == 3       \* base names of a folder
MaxLen == 3         \* characters of an enumerated input text

Bases == 1..MaxFiles

Folders == {"in", "out"}

AllPaths == Folders \X Bases \X {"txt", "xml", "docx"}

NoPath == <<"", 0, "">>

NoFile == [kind |-> "absent", text |-> <<>>]

Undecodable == [kind |-> "undecodable", text |-> <<>>]

Text(t) == [kind |-> "text", text |-> t]

\* os.path.join(folder, os.path.basename(path))
JoinBase(folder, path) == <<folder, path[2], path[3]>>

\* os.path.splitext(path)[0] + ext
WithExt(path, ext) == <<path[1], path[2], ext>>

\* glob.glob(os.path.join(folder, '*' + ext)): the paths of the folder that
\* exist, in an order the file system chooses
Matching(files, folder, ext) ==
    {q \in AllPaths : q[1] = folder /\ q[3] = ext /\ files[q] # NoFile}

RECURSIVE Orders(_)
Orders(S) ==
    IF S = {} THEN {<<>>}
    ELSE UNION {{<<x>> \o o : o \in Orders(S \ {x})} : x \in S}

\* Iterating over the decoded file: the lines, each with its line end.  The
\* texts of the model have no line boundary other than "\n".
RECURSIVE FirstBreak(_, _)
FirstBreak(t, i) ==
    IF i >= Len(t) \/ t[i] = NL THEN i ELSE FirstBreak(t, i + 1)

RECURSIVE SplitLines(_)
SplitLines(t) ==
    IF t = <<>> THEN <<>>
    ELSE LET k == FirstBreak(t, 1)
         IN <<SubSeq(t, 1, k)>> \o SplitLines(SubSeq(t, k + 1, Len(t)))

\* lines 126-128: what the write loop puts out for one element of lines
Written(l) == l \o <<NL>> \o <<NL>>

\* The artifact a successful tokenizer run leaves: it is made from what the
\* tokenizer read.
Artifact(content) == Text(<<"<xml>">> \o content.text)

\* ------------------------------------------------------------------------
\* State
\* ------------------------------------------------------------------------
VARIABLES
    py37,        \* the interpreter is Python 3.7 or later (re.sub rejects \u in a template)
    entry,       \* "cli": the process_folder command; "call": process_file called directly
    language, from_word, tokenize, folder_in, folder_out,
    fs,          \* the file system: path -> content
    readonly,    \* the paths that cannot be opened for writing
    pc,          \* the line of process.py about to run, or "done", "raised", "exit"
    error,       \* the exception that ended the run, "none" while there is none
    docs,        \* the .docx paths the loop of line 139 has still to visit
    files,       \* the .txt paths the loop of line 148 has still to visit
    batch,       \* the .txt paths the glob of line 148 returned
    file_in, file_out,
    f_in,        \* the lines of file_in not read yet
    raw,         \* the line as read from f_in
    line, lines,
    trace,       \* the rule functions called on the current line, in call order
    tok_log,     \* the tokenizer runs: the path given as -in, file_out and whether it
                 \* was written, file_xml, success
    fs0,         \* the file system before the run
    src_text,    \* the text process_file read from file_in
    glob_fs      \* the file system when line 148 listed the folder

config == <<py37, entry, language, from_word, tokenize, folder_in, folder_out, readonly, fs0>>

loop == <<docs, files, batch, glob_fs>>

current == <<file_in, file_out, src_text>>

reader == <<f_in, raw, line, lines, trace>>

vars == <<config, fs, pc, error, loop, current, reader, tok_log>>

\* ------------------------------------------------------------------------
\* Initial states: the arguments of the run and the files it finds
\* ------------------------------------------------------------------------
\* a language code that is not in LANGUAGES
OtherCode == "pl"

Codes == LANGUAGES \cup {OtherCode}

\* The characters of the enumerated input texts
Alphabet == {"a", SP, NL, ".", "-", EN_DASH, SOFT_HYPHEN, RIGHT_SINGLE_QUOTE}

PeriodAlphabet == {"a", SP, "."}

Seqs(A, n) == UNION {[1..k -> A] : k \in 0..n}

InputTexts == Seqs(Alphabet, MaxLen) \cup Seqs(PeriodAlphabet, MaxLen + 2)

\* The .txt file with base name b of a batch: two retained lines around a
\* whitespace-only one, the last without a line end
SampleText(b) == <<"a", SP, ".", "b", NL, SP, NL>> \o [i \in 1..b |-> "c"]

\* '\n'.join of the paragraphs of the .docx file of a batch
DocText == <<"d", NL, "e">>

BatchLanguages == {ENGLISH, FRENCH, OtherCode}

\* The interpreter shows only where line 120 runs
Interpreters(lang) == IF lang \in {ENGLISH, DUTCH, GERMAN} THEN BOOLEAN ELSE {TRUE}

EmptyFs == [q \in AllPaths |-> NoFile]

\* process_file(file_in, file_out, language) called on one text file
CallConfigs ==
    {[entry |-> "call", language |-> lang, py37 |-> v, from_word |-> FALSE,
      tokenize |-> FALSE, folder_in |-> "in", folder_out |-> "out", readonly |-> {},
      fs |-> [EmptyFs EXCEPT ![<<"in", 1, "txt">>] = Text(t)]] :
        <<t, lang, v>> \in {x \in InputTexts \X Codes \X BOOLEAN : x[3] \in Interpreters(x[2])}}

\* the kind of content at each path of the input folder
BatchFolders ==
    {[q \in AllPaths |->
        IF q[1] = "in" /\ q[3] = "txt" THEN c[q[2]]
        ELSE IF q = <<"in", 1, "docx">> THEN d
        ELSE "absent"] :
        c \in [Bases -> {"absent", "undecodable", "text"}],
        d \in {"absent", "undecodable", "text"}}

Content(kind, q) ==
    IF kind = "absent" THEN NoFile
    ELSE IF kind = "undecodable" THEN Undecodable
    ELSE IF q[3] = "docx" THEN Text(DocText)
    ELSE Text(SampleText(q[2]))

\* the process_folder command on a folder of .txt files
BatchConfigs ==
    {[entry |-> "cli", language |-> x[1], py37 |-> x[2], from_word |-> x[3],
      tokenize |-> x[4], folder_in |-> "in", folder_out |-> x[5],
      readonly |-> IF x[6] THEN {<<x[5], 1, "txt">>} ELSE {},
      fs |-> [q \in AllPaths |-> Content(x[7][q], q)]] :
        x \in {y \in Codes \X BOOLEAN \X BOOLEAN \X BOOLEAN \X Folders
                     \X BOOLEAN \X BatchFolders :
                 /\ y[2] \in Interpreters(y[1])
                 /\ y[3] \/ y[7][<<"in", 1, "docx">>] = "absent"
                 /\ \/ y[1] \in BatchLanguages
                    \/ /\ ~y[3] /\ ~y[4] /\ y[5] = "out" /\ ~y[6]
                       /\ \A b \in Bases : y[7][<<"in", b, "txt">>] = "text"}}

Init ==
    \E c \in CallConfigs \cup BatchConfigs :
        /\ py37 = c.py37
        /\ entry = c.entry
        /\ language = c.language
        /\ from_word = c.from_word
        /\ tokenize = c.tokenize
        /\ folder_in = c.folder_in
        /\ folder_out = c.folder_out
        /\ readonly = c.readonly
        /\ fs = c.fs
        /\ fs0 = c.fs
        /\ pc = IF c.entry = "cli" THEN "L134" ELSE "L110"
        /\ error = "none"
        /\ docs = <<>>
        /\ files = <<>>
        /\ batch = {}
        /\ glob_fs = c.fs
        /\ file_in = IF c.entry = "cli" THEN NoPath ELSE <<"in", 1, "txt">>
        /\ file_out = IF c.entry = "cli" THEN NoPath ELSE <<"out", 1, "txt">>
        /\ src_text = <<>>
        /\ f_in = <<>>
        /\ raw = <<>>
        /\ line = <<>>
        /\ lines = <<>>
        /\ trace = <<>>
        /\ tok_log = <<>>

\* ------------------------------------------------------------------------
\* process_folder (lines 131-155)
\* ------------------------------------------------------------------------
Raise(exc) ==
    /\ pc' = "raised"
    /\ error' = exc

\* line 134: click.Choice(LANGUAGES) checks the language argument before
\* the body of process_folder runs
ClickValidate ==
    /\ pc = "L134"
    /\ IF language \in LANGUAGES
       THEN pc' = "L138" /\ error' = error
       ELSE pc' = "exit" /\ error' = "UsageError"
    /\ UNCHANGED <<config, fs, loop, current, reader, tok_log>>

\* lines 138-139: the .docx files of folder_in, when --from_word is given
GlobDocx ==
    /\ pc = "L138"
    /\ IF from_word
       THEN /\ docs' \in Orders(Matching(fs, folder_in, "docx"))
            /\ pc' = "L139"
       ELSE /\ docs' = docs
            /\ pc' = "L148"
    /\ UNCHANGED <<config, fs, error, files, batch, glob_fs, current, reader, tok_log>>

\* lines 139-146: one document becomes a .txt file next to it
ConvertDocument ==
    /\ pc = "L139"
    /\ docs # <<>>
    /\ LET file_docx == Head(docs)
           file_txt == WithExt(file_docx, "txt")
       IN IF fs[file_docx] = Undecodable
          THEN Raise("PackageNotFoundError") /\ UNCHANGED <<fs, docs>>
          ELSE IF file_txt \in readonly
          THEN Raise("IOError") /\ UNCHANGED <<fs, docs>>
          ELSE /\ fs' = [fs EXCEPT ![file_txt] = Text(fs[file_docx].text)]
               /\ docs' = Tail(docs)
               /\ UNCHANGED <<pc, error>>
    /\ UNCHANGED <<config, files, batch, glob_fs, current, reader, tok_log>>

ConvertDone ==
    /\ pc = "L139"
    /\ docs = <<>>
    /\ pc' = "L148"
    /\ UNCHANGED <<config, fs, error, loop, current, reader, tok_log>>

\* line 148: the .txt files of folder_in
GlobTxt ==
    /\ pc = "L148"
    /\ files' \in Orders(Matching(fs, folder_in, "txt"))
    /\ batch' = Matching(fs, folder_in, "txt")
    /\ glob_fs' = fs
    /\ pc' = "L149"
    /\ UNCHANGED <<config, fs, error, docs, current, reader, tok_log>>

\* lines 148-150: the next file of the loop, and the call of process_file
NextFile ==
    /\ pc = "L149"
    /\ files # <<>>
    /\ file_in' = Head(files)
    /\ file_out' = JoinBase(folder_out, Head(files))
    /\ files' = Tail(files)
    /\ pc' = "L110"
    /\ UNCHANGED <<config, fs, error, docs, batch, glob_fs, src_text, reader, tok_log>>

FolderDone ==
    /\ pc = "L149"
    /\ files = <<>>
    /\ pc' = "done"
    /\ UNCHANGED <<config, fs, error, loop, current, reader, tok_log>>

\* line 152
CheckTokenize ==
    /\ pc = "L152"
    /\ pc' = IF tokenize THEN "L153" ELSE "L149"
    /\ UNCHANGED <<config, fs, error, loop, current, reader, tok_log>>

\* lines 153-155: the shell runs the command of line 25 with file_in as -in
\* and its output redirected to file_xml.  The shell creates file_xml before
\* it starts uplug; subprocess.call returns the exit status, which line 155
\* drops, and raises nothing when uplug is missing or fails.
Tokenize ==
    /\ pc = "L153"
    /\ LET file_xml == WithExt(JoinBase(folder_out, file_in), "xml")
       IN \E outcome \in {"ok", "nonzero exit", "uplug missing"} :
            /\ fs' = [fs EXCEPT ![file_xml] =
                        IF outcome = "ok" THEN Artifact(fs[file_in]) ELSE Text(<<>>)]
            /\ tok_log' = Append(tok_log, [input |-> file_in, file_out |-> file_out,
                                           file_xml |-> file_xml,
                                           written |-> fs[file_out].kind = "text",
                                           ok |-> outcome = "ok"])
    /\ pc' = "L149"
    /\ UNCHANGED <<config, error, loop, current, reader>>

\* ------------------------------------------------------------------------
\* process_file (lines 108-128)
\* ------------------------------------------------------------------------
\* lines 109-111: open file_in; the first read decodes it
OpenInput ==
    /\ pc = "L110"
    /\ IF fs[file_in].kind # "text"
       THEN /\ Raise(IF fs[file_in] = NoFile THEN "IOError" ELSE "UnicodeDecodeError")
            /\ UNCHANGED <<src_text, f_in, lines>>
       ELSE /\ src_text' = fs[file_in].text
            /\ f_in' = SplitLines(fs[file_in].text)
            /\ lines' = <<>>
            /\ pc' = "L111"
            /\ error' = error
    /\ UNCHANGED <<config, fs, loop, file_in, file_out, raw, line, trace, tok_log>>

\* lines 111-112: the next line; a line that strips to nothing is skipped
ReadLine ==
    /\ pc = "L111"
    /\ f_in # <<>>
    /\ line' = Head(f_in)
    /\ raw' = Head(f_in)
    /\ f_in' = Tail(f_in)
    /\ trace' = <<>>
    /\ pc' = IF Strip(Head(f_in)) # <<>> THEN "L113" ELSE "L111"
    /\ UNCHANGED <<config, fs, error, loop, current, lines, tok_log>>

\* One rule function called on line: the line of process.py, the function,
\* its result and the line that runs next
Step(at, name, result, next) ==
    /\ pc = at
    /\ trace' = Append(trace, name)
    /\ line' = result
    /\ pc' = next
    /\ UNCHANGED <<config, fs, error, loop, current, f_in, raw, lines, tok_log>>

RemoveDoubleSpaces ==
    Step("L113", "remove_double_spaces", remove_double_spaces(line), "L114")

RemoveSoftHyphens ==
    Step("L114", "remove_soft_hyphens", remove_soft_hyphens(line), "L115")

ReplaceCommonErrors ==
    Step("L115", "replace_common_errors", replace_common_errors(language, line), "L116")

FixPeriodSpacing ==
    Step("L116", "fix_period_spacing", fix_period_spacing(line), "L117")

FixHyphenization ==
    Step("L117", "fix_hyphenization", fix_hyphenization(language, line), "L118")

\* lines 118-119
ReplaceQuotes ==
    Step("L118", "replace_quotes", replace_quotes(language, line),
         IF UsesApostrophes(language) THEN "L120" ELSE "L122")

\* line 120.  From Python 3.7 on, re.sub raises re.error ("bad escape \u")
\* for the template of line 30, whatever the line; before, the \u of the
\* template stays as written.
NormalizeApostrophes ==
    /\ pc = "L120"
    /\ trace' = Append(trace, "normalize_apostrophes")
    /\ IF py37
       THEN Raise("re.error") /\ line' = line
       ELSE /\ line' = normalize_apostrophes(line)
            /\ pc' = "L122"
            /\ error' = error
    /\ UNCHANGED <<config, fs, loop, current, f_in, raw, lines, tok_log>>

\* line 122
AppendLine ==
    /\ pc = "L122"
    /\ lines' = Append(lines, line)
    /\ pc' = "L111"
    /\ UNCHANGED <<config, fs, error, loop, current, f_in, raw, line, trace, tok_log>>

\* line 124, once the input is read to its end: open file_out, which empties it
OpenOutput ==
    /\ pc = "L111"
    /\ f_in = <<>>
    /\ IF file_out \in readonly
       THEN Raise("IOError") /\ fs' = fs
       ELSE /\ fs' = [fs EXCEPT ![file_out] = Text(<<>>)]
            /\ pc' = "L125"
            /\ error' = error
    /\ UNCHANGED <<config, loop, current, reader, tok_log>>

\* lines 125-128
WriteLine ==
    /\ pc = "L125"
    /\ lines # <<>>
    /\ fs' = [fs EXCEPT ![file_out] = Text(fs[file_out].text \o Written(Head(lines)))]
    /\ lines' = Tail(lines)
    /\ UNCHANGED <<config, pc, error, loop, current, f_in, raw, line, trace, tok_log>>

\* process_file returns: to line 152 of process_folder, or to its caller
Return ==
    /\ pc = "L125"
    /\ lines = <<>>
    /\ pc' = IF entry = "cli" THEN "L152" ELSE "done"
    /\ UNCHANGED <<config, fs, error, loop, current, reader, tok_log>>

Next ==
    \/ ClickValidate
    \/ GlobDocx
    \/ ConvertDocument
    \/ ConvertDone
    \/ GlobTxt
    \/ NextFile
    \/ FolderDone
    \/ OpenInput
    \/ ReadLine
    \/ RemoveDoubleSpaces
    \/ RemoveSoftHyphens
    \/ ReplaceCommonErrors
    \/ FixPeriodSpacing
    \/ FixHyphenization
    \/ ReplaceQuotes
    \/ NormalizeApostrophes
    \/ AppendLine
    \/ OpenOutput
    \/ WriteLine
    \/ Return
    \/ CheckTokenize
    \/ Tokenize

Spec == Init /\ [][Next]_vars

\* ------------------------------------------------------------------------
\* Properties
\* ------------------------------------------------------------------------
NineCodes == {"de", "en", "es", "fr", "it", "nl", "ru", "ca", "sv"}

SixSteps ==
    <<"remove_double_spaces", "remove_soft_hyphens", "replace_common_errors",
      "fix_period_spacing", "fix_hyphenization", "replace_quotes">>

StepsFor(lang) ==
    IF lang \in {"en", "nl", "de"} THEN Append(SixSteps, "normalize_apostrophes")
    ELSE SixSteps

IsPrefix(s, t) == Len(s) <= Len(t) /\ SubSeq(t, 1, Len(s)) = s

Blank(l) == \A i \in 1..Len(l) : l[i] \in {SP, NL, "\t", "\r", "\f"}

\* The output the claims describe for a text: the transformed non-blank
\* lines in input order, each followed by two newline characters
RECURSIVE OutputOf(_, _)
OutputOf(ls, lang) ==
    IF ls = <<>> THEN <<>>
    ELSE (IF Blank(Head(ls)) THEN <<>>
          ELSE PipelineResult(lang, Head(ls)) \o <<"\n", "\n">>)
         \o OutputOf(Tail(ls), lang)

ExpectedOutput(text, lang) == Text(OutputOf(SplitLines(text), lang))

\* process_file has returned to its caller
Returned == pc = "L152" \/ (entry = "call" /\ pc = "done")

\* the run is over
RunOver == pc \in {"done", "raised", "exit"}

\* a path of the batch that process_file can read and whose output it can write
Processable(q) ==
    glob_fs[q].kind = "text" /\ JoinBase(folder_out, q) \notin readonly

Normalized(q) ==
    fs[JoinBase(folder_out, q)] = ExpectedOutput(glob_fs[q].text, language)

\* C1: once process_file is over for a readable input and a writable output,
\* whatever the language, file_out holds exactly the transformed non-blank
\* input lines in input order, each followed by two newline characters.
C1_OutputOfEveryFile ==
    (Returned \/ (pc = "raised" /\ error = "re.error"))
        => fs[file_out] = ExpectedOutput(src_text, language)

\* C1, the part the code keeps: whenever process_file returns, file_out holds
\* exactly that output.
C1_OutputOnReturn ==
    Returned => fs[file_out] = ExpectedOutput(src_text, language)

\* C2: for every retained line and every language the rule functions are
\* called in the one fixed order, the first six always and
\* normalize_apostrophes after them if and only if the language is English,
\* Dutch or German; the line appended is the composition in that order.
C2_FixedStepOrder ==
    /\ pc \in {"L113", "L114", "L115", "L116", "L117", "L118", "L120", "L122"}
         => /\ IsPrefix(trace, StepsFor(language))
            /\ Len(trace) = CASE pc = "L113" -> 0 [] pc = "L114" -> 1
                              [] pc = "L115" -> 2 [] pc = "L116" -> 3
                              [] pc = "L117" -> 4 [] pc = "L118" -> 5
                              [] pc = "L120" -> 6 [] pc = "L122" -> Len(StepsFor(language))
    /\ pc = "L122" =>
         /\ trace = StepsFor(language)
         /\ LET l1 == remove_double_spaces(raw)
                l2 == remove_soft_hyphens(l1)
                l3 == replace_common_errors(language, l2)
                l4 == fix_period_spacing(l3)
                l5 == fix_hyphenization(language, l4)
                l6 == replace_quotes(language, l5)
            IN line = IF language \in {"en", "nl", "de"}
                      THEN normalize_apostrophes(l6) ELSE l6

\* a German line with a right single quotation mark went through all seven steps
C2_Witness ==
    /\ pc = "L122"
    /\ language = GERMAN
    /\ Len(trace) = 7
    /\ line # raw
    /\ \E i \in 1..Len(raw) : raw[i] = RIGHT_SINGLE_QUOTE

\* C3: each of the nine codes gets past validation, and with any other code
\* the run fails before a line is transformed or an output is written.
C3_UnsupportedLanguageRejected ==
    /\ language \in NineCodes => pc # "exit"
    /\ language \notin NineCodes =>
         /\ trace = <<>>
         /\ lines = <<>>
         /\ fs = fs0
         /\ pc # "done"

\* C4: when process_file fails with an IOFailure on one file of a batch,
\* every other file of the batch that can be processed has its correct
\* normalized output when the run is over.
C4_BatchSurvivesIOFailure ==
    (entry = "cli" /\ pc = "raised" /\ error \in {"UnicodeDecodeError", "IOError"})
        => \A q \in batch \ {file_in} : Processable(q) => Normalized(q)

\* C5: with --tokenize, once a tokenizer run has failed, the run still ends
\* with the normalized output of every file of the batch that can be
\* processed.
C5_TokenizerFailureHarmless ==
    (entry = "cli" /\ tokenize /\ RunOver /\ \E i \in 1..Len(tok_log) : ~tok_log[i].ok)
        => \A q \in batch : Processable(q) => Normalized(q)

\* C5, the part the code keeps: a tokenizer run, failed or not, changes no
\* .txt file and is followed by the next file of the loop.
C5_TokenizerStep ==
    [][pc = "L153" =>
         /\ pc' = "L149"
         /\ \A q \in AllPaths : q[3] = "txt" => fs'[q] = fs[q]]_vars

\* C6: every tokenizer run comes after the normalized output of its file is
\* written and is given that output file as its input.
C6_TokenizerReadsNormalized ==
    \A i \in 1..Len(tok_log) :
        /\ tok_log[i].written
        /\ tok_log[i].input = tok_log[i].file_out

\* C7: when a run is over (here one that converts no documents), every
\* .txt file of the input folder holds what it held before the run, also
\* when folder_out is folder_in.
C7_InputUntouched ==
    (RunOver /\ ~from_word) =>
        \A q \in AllPaths :
            (q[1] = folder_in /\ q[3] = "txt" /\ fs0[q] # NoFile) => fs[q] = fs0[q]

\* C8: no line that process_file writes is empty.
C8_NoEmptyEntry ==
    \A i \in 1..Len(lines) : lines[i] # <<>>

\* a period between two word characters with at most one whitespace
\* character before it
TightPeriod(s, i) ==
    /\ s[i] = "."
    /\ At(s, i + 1) \in WordChars
    /\ \/ At(s, i - 1) \in WordChars
       \/ At(s, i - 1) \in WhiteSpace /\ At(s, i - 2) \in WordChars

\* C9: the result of fix_period_spacing has no period between two word
\* characters with zero or one whitespace character before it.
C9_NoTightPeriodLeft ==
    pc = "L117" => \A i \in 1..Len(line) : ~TightPeriod(line, i)

NoEdgeSpace(s) == s = <<>> \/ (s[1] \notin WhiteSpace /\ s[Len(s)] \notin WhiteSpace)

NoDoubleSpace(s) ==
    \A i \in 1..(Len(s) - 1) : ~(s[i] \in WhiteSpace /\ s[i + 1] \in WhiteSpace)

=============================================================================
